---- MODULE Spec2Model ----
(***************************************************************************)
(* State-machine model of api/scrape.py: the request boundary              *)
(* (handler.do_POST), the orchestrator (UKBusinessScraper.search) and the  *)
(* five directory adapters (scrape_yell, scrape_freeindex,                 *)
(* scrape_thomson_local, scrape_yelp_uk, scrape_google_maps).              *)
(*                                                                         *)
(* Text is a sequence of one-character strings, so that lower(), strip()   *)
(* and _clean_text() are computed character by character.  The web is the  *)
(* environment: every fetch nondeterministically yields a transport error  *)
(* (requests.RequestException), another exception, or a page of listing    *)
(* containers.                                                             *)
(***************************************************************************)
EXTENDS Integers, Sequences, FiniteSets, TLC

VARIABLES pc, req, response, respBody, escaped, maxPages, sources, srcIdx,
          all_businesses, results, returned, ad, log, runs, okLeft,
          address, postcode

vars == <<pc, req, response, respBody, escaped, maxPages, sources, srcIdx,
          all_businesses, results, returned, ad, log, runs, okLeft,
          address, postcode>>

(***************************************************************************)
(* Bounds of the model                                                     *)
(***************************************************************************)
\* longest "sources" array a request carries
MaxSources == 2
\* most listing containers the web serves while one request is handled
MaxServed == 2
\* longest text of an address element
MaxAddress == 6
\* most listing containers the web serves during one call of search in
\* the specification with fairness
MaxServedFair == 1

(***************************************************************************)
(* Program constants                                                       *)
(***************************************************************************)
\* min(data.get('max_pages', 2), 5)
PageCap == 5
DefaultMaxPages == 2
\* scrape_google_maps(query, location, max_pages * 10)
GoogleResultsPerPage == 10
\* start = page * 10
YelpPageSize == 10

(***************************************************************************)
(* Text utilities                                                          *)
(***************************************************************************)
Min(a, b) == IF a < b THEN a ELSE b

Max(a, b) == IF a < b THEN b ELSE a

\* characters str.split() and str.strip() treat as whitespace
IsSpace(c) == c \in {" ", "\t", "\n"}

LowerChar(c) == CASE c = "A" -> "a"
                  [] c = "B" -> "b"
                  [] OTHER -> c

\* str.lower()
lower(text) == [i \in 1..Len(text) |-> LowerChar(text[i])]

RECURSIVE lstrip(_)
lstrip(text) == IF text = <<>> THEN <<>>
                ELSE IF IsSpace(Head(text)) THEN lstrip(Tail(text))
                ELSE text

RECURSIVE rstrip(_)
rstrip(text) == IF text = <<>> THEN <<>>
                ELSE IF IsSpace(text[Len(text)])
                     THEN rstrip(SubSeq(text, 1, Len(text) - 1))
                ELSE text

\* str.strip()
strip(text) == rstrip(lstrip(text))

\* str.split(): the maximal runs of non-whitespace characters, in order
RECURSIVE split(_, _, _)
split(text, word, words) ==
    IF text = <<>>
    THEN IF word = <<>> THEN words ELSE Append(words, word)
    ELSE IF IsSpace(Head(text))
         THEN split(Tail(text), <<>>,
                    IF word = <<>> THEN words ELSE Append(words, word))
         ELSE split(Tail(text), Append(word, Head(text)), words)

\* ' '.join(words)
RECURSIVE join(_)
join(words) == IF words = <<>> THEN <<>>
               ELSE IF Len(words) = 1 THEN words[1]
               ELSE words[1] \o <<" ">> \o join(Tail(words))

\* UKBusinessScraper._clean_text
_clean_text(text) == IF text = <<>> THEN <<>>
                     ELSE strip(join(split(text, <<>>, <<>>)))

(***************************************************************************)
(* Listing containers and records                                          *)
(***************************************************************************)
\* marks a field whose element select_one() does not find
NoElem == <<"<none>">>

\* source_methods keys
SourceIds == {"yell", "google", "thomson", "freeindex", "yelp"}

\* the fixed identifier each adapter gives UKBusiness(source=...)
SourceTag(src) == CASE src = "yell" -> "yell.com"
                    [] src = "freeindex" -> "freeindex"
                    [] src = "thomson" -> "thomson_local"
                    [] src = "yelp" -> "yelp_uk"
                    [] src = "google" -> "google_maps"

\* the fields each adapter extracts, in the order of its code
AdapterFields(src) ==
    CASE src = "yell" -> <<"name", "address", "phone", "industry",
                           "rating", "description">>
      [] src = "freeindex" -> <<"name", "address", "industry", "rating">>
      [] src = "thomson" -> <<"name", "address", "phone">>
      [] src = "yelp" -> <<"name", "industry">>
      [] src = "google" -> <<"name", "rating", "address", "phone">>

\* UKBusiness(source=...): every field at its default
UKBusiness(tag) == [name |-> <<>>, source |-> tag, fields |-> {}]

\* A listing container as the page presents it: the text of its name
\* element (NoElem when neither name selector matches), the other fields
\* whose element is present, and the field whose extraction raises.
ListingSamples ==
    { [name |-> <<"A">>, present |-> {"address", "rating"}, raises |-> "none"],
      [name |-> <<" ", "a", "\t">>, present |-> {}, raises |-> "none"],
      [name |-> <<" ">>, present |-> {"address", "phone"}, raises |-> "none"],
      [name |-> NoElem, present |-> {"address"}, raises |-> "none"],
      [name |-> <<"b">>, present |-> {}, raises |-> "none"],
      [name |-> <<"B">>, present |-> {}, raises |-> "industry"] }

\* One field of one listing: "if elem: business.field = ..."; an exception
\* raised by the extraction leaves the try block of the listing.
ExtractField(st, fld, listing) ==
    IF st.exc THEN st
    ELSE IF listing.raises = fld THEN [st EXCEPT !.exc = TRUE]
    ELSE IF fld = "name"
         THEN IF listing.name = NoElem THEN st
              ELSE [st EXCEPT !.business.name = _clean_text(listing.name)]
    ELSE IF fld \in listing.present
         THEN [st EXCEPT !.business.fields = @ \cup {fld}]
    ELSE st

RECURSIVE ExtractFields(_, _, _)
ExtractFields(st, flds, listing) ==
    IF flds = <<>> THEN st
    ELSE ExtractFields(ExtractField(st, Head(flds), listing), Tail(flds), listing)

\* a variant that appends every record, named or not
HasNameAlways(business) == TRUE

\* "if business.name:"
HasName(business) == business.name # <<>>

\* The body of "for listing in listings: try: ... except Exception: continue"
ProcessListing(src, businesses, listing) ==
    LET st == ExtractFields([exc |-> FALSE, business |-> UKBusiness(SourceTag(src))],
                            AdapterFields(src), listing)
    IN IF st.exc THEN businesses
       ELSE IF HasName(st.business) THEN Append(businesses, st.business)
       ELSE businesses

\* a variant whose exception handler leaves the loop over the listings
RECURSIVE ProcessListingsAbort(_, _, _)
ProcessListingsAbort(src, businesses, listings) ==
    IF listings = <<>> THEN businesses
    ELSE IF ExtractFields([exc |-> FALSE, business |-> UKBusiness(SourceTag(src))],
                          AdapterFields(src), Head(listings)).exc
         THEN businesses
    ELSE ProcessListingsAbort(src, ProcessListing(src, businesses, Head(listings)),
                              Tail(listings))

RECURSIVE ProcessListings(_, _, _)
ProcessListings(src, businesses, listings) ==
    IF listings = <<>> THEN businesses
    ELSE ProcessListings(src, ProcessListing(src, businesses, Head(listings)),
                         Tail(listings))

(***************************************************************************)
(* The adapters: one loop iteration of a paginated adapter                 *)
(***************************************************************************)
\* the adapter frame of search when no adapter is running
NoAdapter == [name |-> "none", page |-> 0, businesses |-> <<>>,
              phase |-> "none", fetched |-> "-", listings |-> <<>>]

\* "businesses = []" and the first value of the loop variable:
\* range(1, max_pages + 1), and range(max_pages) for scrape_yelp_uk
StartAdapter(src) == [name |-> src, page |-> IF src = "yelp" THEN 0 ELSE 1,
                      businesses |-> <<>>, phase |-> "loop", fetched |-> "-",
                      listings |-> <<>>]

\* a variant whose loop runs one iteration longer
LastPageOneMore(src, max_pages) == IF src = "yelp" THEN max_pages ELSE max_pages + 1

\* the last value of the loop variable
LastPage(src, max_pages) == IF src = "yelp" THEN max_pages - 1 ELSE max_pages

\* a variant whose start= of scrape_yelp_uk is the loop variable itself
PageParamNoOffset(src, page) == page

\* the page parameter of the search URL: pageNum=, p=, page=, and start=
PageParam(src, page) == IF src = "yelp" THEN page * YelpPageSize ELSE page

\* the adapters with "if not listings: break"
BreaksOnNoListings(src) == src \in {"yell", "freeindex", "thomson"}

\* a variant with "continue" in place of "break"
OnRequestExceptionContinue(a) ==
    IF a.name = "google" THEN [a EXCEPT !.phase = "return"]
    ELSE [a EXCEPT !.page = @ + 1, !.phase = "loop"]

\* "except requests.RequestException: break"
OnRequestException(a) == [a EXCEPT !.phase = "return"]

\* an exception that is not a RequestException leaves the adapter
OnOtherException(a) == [a EXCEPT !.phase = "raised"]

\* a variant without "self._delay()" at the end of the loop body
AfterListingsNoDelay(a) ==
    IF a.name = "google" THEN [a EXCEPT !.phase = "return"]
    ELSE [a EXCEPT !.page = @ + 1, !.phase = "loop"]

\* the listings were processed: "self._delay()" is next
AfterListings(a) == [a EXCEPT !.phase = "delay"]

\* a parsed page: the listing containers of the fallback selector chain
OnPage(src, a, listings) ==
    IF listings = <<>> /\ BreaksOnNoListings(src)
    THEN [a EXCEPT !.phase = "return"]
    ELSE AfterListings([a EXCEPT !.businesses = ProcessListings(src, @, listings),
                                 !.listings = listings])

\* local_results[:max_results]
SliceTo(listings, n) ==
    IF n >= 0 THEN SubSeq(listings, 1, Min(n, Len(listings)))
    ELSE SubSeq(listings, 1, Max(Len(listings) + n, 0))

\* what the web answers to one GET
Pages == UNION {[1..n -> ListingSamples] : n \in 0..MaxServed}

FetchOutcomes(budget) ==
    {[kind |-> "transport", listings |-> <<>>],
     [kind |-> "raise", listings |-> <<>>]}
    \cup {[kind |-> "page", listings |-> p] :
            p \in {q \in Pages : Len(q) <= budget}}

OutcomeKind(o) == IF o.kind # "page" THEN o.kind
                  ELSE IF o.listings = <<>> THEN "empty" ELSE "listings"

\* the entries of the log of one adapter call: a GET with the page
\* parameter of its URL, and a politeness delay
FetchEntry(src, page) == [op |-> "fetch", arg |-> PageParam(src, page)]

DelayEntry == [op |-> "delay", arg |-> 0]

\* a JSON string is the only value quote_plus() accepts
IsStr(j) == j.t = "str"

\* building the search URL raises TypeError on a query or location that is
\* not a string (the f-string of scrape_google_maps formats any value)
UrlRaises(src) == src # "google" /\ ~(IsStr(req.query) /\ IsStr(req.location))

\* the try body of one page: get, raise_for_status, parse, select, listings
PageResult(src, a, o) ==
    CASE o.kind = "transport" -> OnRequestException(a)
      [] o.kind = "raise" -> OnOtherException(a)
      [] o.kind = "page" -> OnPage(src, a, o.listings)

\* One iteration of "for page in range(...)" up to self._delay()
PaginatedIteration(src) ==
    /\ pc = "adapter"
    /\ ad.name = src
    /\ ad.phase = "loop"
    /\ IF ad.page > LastPage(src, maxPages)
       THEN /\ ad' = [ad EXCEPT !.phase = "return"]
            /\ UNCHANGED <<log, okLeft>>
       ELSE IF UrlRaises(src)
       THEN /\ ad' = OnOtherException(ad)
            /\ UNCHANGED <<log, okLeft>>
       ELSE \E o \in FetchOutcomes(okLeft) :
            /\ ad' = PageResult(src, [ad EXCEPT !.fetched = OutcomeKind(o)], o)
            /\ log' = Append(log, FetchEntry(src, ad.page))
            /\ okLeft' = okLeft - Len(o.listings)
    /\ UNCHANGED <<pc, req, response, respBody, escaped, maxPages, sources,
                   srcIdx, all_businesses, results, returned, runs>>
    /\ UNCHANGED <<address, postcode>>

scrape_yell == PaginatedIteration("yell")

scrape_freeindex == PaginatedIteration("freeindex")

scrape_thomson_local == PaginatedIteration("thomson")

scrape_yelp_uk == PaginatedIteration("yelp")

\* scrape_google_maps up to self._delay(): one GET, the results cut to
\* max_results, "except requests.RequestException: pass"
scrape_google_maps ==
    /\ pc = "adapter"
    /\ ad.name = "google"
    /\ ad.phase = "loop"
    /\ \E o \in FetchOutcomes(okLeft) :
         /\ ad' = LET a == [ad EXCEPT !.fetched = OutcomeKind(o)]
                  IN CASE o.kind = "transport" -> OnRequestException(a)
                       [] o.kind = "raise" -> OnOtherException(a)
                       [] o.kind = "page" ->
                            LET cut == SliceTo(o.listings,
                                               maxPages * GoogleResultsPerPage)
                            IN AfterListings([a EXCEPT
                                  !.businesses = ProcessListings("google", @, cut),
                                  !.listings = cut])
         /\ log' = Append(log, FetchEntry("google", ad.page))
         /\ okLeft' = okLeft - Len(o.listings)
    /\ UNCHANGED <<pc, req, response, respBody, escaped, maxPages, sources,
                   srcIdx, all_businesses, results, returned, runs>>
    /\ UNCHANGED <<address, postcode>>

\* UKBusinessScraper._delay, and the step to the next loop iteration
_delay ==
    /\ pc = "adapter"
    /\ ad.phase = "delay"
    /\ log' = Append(log, DelayEntry)
    /\ ad' = IF ad.name = "google"
             THEN [ad EXCEPT !.phase = "return", !.listings = <<>>]
             ELSE [ad EXCEPT !.page = @ + 1, !.phase = "loop",
                             !.listings = <<>>]
    /\ UNCHANGED <<pc, req, response, respBody, escaped, maxPages, sources,
                   srcIdx, all_businesses, results, returned, runs, okLeft>>
    /\ UNCHANGED <<address, postcode>>

(***************************************************************************)
(* JSON values of the request body                                         *)
(***************************************************************************)
JAbsent == [t |-> "absent", n |-> 0, s |-> <<>>, items |-> <<>>]

JNull == [t |-> "null", n |-> 0, s |-> <<>>, items |-> <<>>]

JNum(n) == [t |-> "num", n |-> n, s |-> <<>>, items |-> <<>>]

\* a JSON string: s is the sequence of its characters
JStr(s) == [t |-> "str", n |-> 0, s |-> s, items |-> <<>>]

JList(items) == [t |-> "list", n |-> 0, s |-> <<>>, items |-> items]

\* dict.get(key, default)
Get(j, default) == IF j.t = "absent" THEN default ELSE j

\* the truth value Python gives "not query"
Truthy(j) == CASE j.t = "str" -> j.s # <<>>
               [] j.t = "num" -> j.n # 0
               [] j.t = "list" -> j.items # <<>>
               [] OTHER -> FALSE

\* a source identifier that is no key of source_methods
UnknownSource == "bing"

SourceLists == UNION {[1..n -> SourceIds \cup {UnknownSource}] : n \in 0..MaxSources}

\* the max_pages numbers a request carries
MaxPagesSamples == {-1, 0, 1, 6}

QuerySamples == {JAbsent, JStr(<<>>),
                 JStr(<<"p", "l", "u", "m", "b", "e", "r", "s">>), JNum(7)}

LocationSamples == {JAbsent, JStr(<<>>), JStr(<<"L", "e", "e", "d", "s">>)}

\* no value, null, a number, the strings "" and "yell", and the arrays
SourcesSamples == {JAbsent, JNull, JNum(3), JStr(<<>>), JStr(<<"y", "e", "l", "l">>)}
                  \cup {JList(l) : l \in SourceLists}

MaxPagesValues == {JAbsent, JStr(<<"3">>)} \cup {JNum(n) : n \in MaxPagesSamples}

\* a request whose body is no JSON object carries no fields
NoFields(cl, body) == [method |-> "POST", cl |-> cl, body |-> body,
                       query |-> JAbsent, location |-> JAbsent,
                       sources |-> JAbsent, max_pages |-> JAbsent]

\* an OPTIONS request: do_OPTIONS reads neither headers nor body
OptionsRequest == [NoFields("unread", "unread") EXCEPT !.method = "OPTIONS"]

\* the place of an id among the keys of source_methods, an unknown id last
SourceRank(id) == CASE id = "yell" -> 1
                    [] id = "google" -> 2
                    [] id = "thomson" -> 3
                    [] id = "freeindex" -> 4
                    [] id = "yelp" -> 5
                    [] OTHER -> 6

\* The sampled bodies: every max_pages value with at most one source or the
\* default sources, every sources array of two ids with max_pages 1, and
\* the longer arrays that name their sources once and in the order of the
\* keys of source_methods, again with max_pages 1.
Sampled(srcs, mp) ==
    /\ Len(srcs.items) > 1 => mp = JNum(1)
    /\ Len(srcs.items) > 2 =>
          \A i, j \in DOMAIN srcs.items :
             i < j => SourceRank(srcs.items[i]) < SourceRank(srcs.items[j])

Requests ==
    {NoFields("missing", "object"), NoFields("ok", "badjson"),
     NoFields("ok", "notobject")}
    \cup {r \in [method : {"POST"}, cl : {"ok"}, body : {"object"},
                  query : QuerySamples,
                  location : LocationSamples, sources : SourcesSamples,
                  max_pages : MaxPagesValues] : Sampled(r.sources, r.max_pages)}

(***************************************************************************)
(* handler.do_POST up to the call of search                                *)
(***************************************************************************)
\* a variant without the cap
CapMaxPagesNone(n) == n

\* min(., 5)
CapMaxPages(n) == Min(n, PageCap)

\* "if not query or not location"
MissingInput(query, location) == ~Truthy(query) \/ ~Truthy(location)

\* What lines 395-419 do with a request, in the order of the code:
\* "escape" (an exception outside the try), 500, 400, or the call of search
\* with the capped max_pages and the sources it iterates.
Boundary(r) ==
    LET query == Get(r.query, JStr(<<>>))
        location == Get(r.location, JStr(<<>>))
        srcs == Get(r.sources, JList(<<"yell", "freeindex">>))
        mp == Get(r.max_pages, JNum(DefaultMaxPages))
        none == [out |-> "none", max_pages |-> 0, sources |-> <<>>]
    IN IF r.cl # "ok" THEN [none EXCEPT !.out = "escape"]
       ELSE IF r.body # "object" THEN [none EXCEPT !.out = "500"]
       ELSE IF mp.t # "num" THEN [none EXCEPT !.out = "500"]
       ELSE IF MissingInput(query, location) THEN [none EXCEPT !.out = "400"]
       ELSE IF srcs.t \notin {"list", "null", "str"}
            THEN [none EXCEPT !.out = "500", !.max_pages = CapMaxPages(mp.n)]
       ELSE [out |-> "search", max_pages |-> CapMaxPages(mp.n),
             sources |-> CASE srcs.t = "null" -> <<"yell", "freeindex">>
                           [] srcs.t = "str" -> srcs.s
                           [] OTHER -> srcs.items]

\* "scraper = UKBusinessScraper(...)": "self.results = []" of __init__
NewScraperResults == <<>>

\* how the writes of the answers to wfile end: all succeed, the first
\* answer of the request fails in end_headers or in the write of its body
\* and the next one succeeds, or every answer fails
WriteOutcomes == {"ok", "body_fails", "all_fail"}

\* The answer with this status and body.  An answer sent inside the try
\* block that fails is followed by the 500 of the except handler; an
\* exception raised by an answer of the except handler leaves do_POST.
Answer(status, body, in_try, w) ==
    CASE w = "ok" -> [response |-> <<status>>, respBody |-> body, escaped |-> FALSE]
      [] w = "body_fails" /\ in_try ->
           [response |-> <<status, 500>>, respBody |-> "error", escaped |-> FALSE]
      [] OTHER ->
           [response |-> IF in_try THEN <<status, 500>> ELSE <<status>>,
            respBody |-> "none", escaped |-> TRUE]

do_POST ==
    /\ pc = "idle"
    /\ \E r \in Requests :
       \E w \in IF Boundary(r).out \in {"500", "400"} THEN WriteOutcomes ELSE {"ok"} :
         LET b == Boundary(r)
             a == CASE b.out = "500" -> Answer(500, "error", FALSE, w)
                    [] b.out = "400" -> Answer(400, "error", TRUE, w)
                    [] OTHER -> [response |-> <<>>, respBody |-> "none",
                                 escaped |-> b.out = "escape"]
         IN /\ req' = r
            /\ escaped' = a.escaped
            /\ response' = a.response
            /\ respBody' = a.respBody
            /\ pc' = IF b.out = "search" THEN "search" ELSE "done"
            /\ maxPages' = b.max_pages
            /\ sources' = b.sources
    /\ srcIdx' = 1
    /\ all_businesses' = <<>>
    /\ results' = NewScraperResults
    /\ returned' = <<>>
    /\ ad' = NoAdapter
    /\ log' = <<>>
    /\ runs' = <<>>
    /\ okLeft' = MaxServed
    /\ UNCHANGED <<address, postcode>>

(***************************************************************************)
(* UKBusinessScraper.search                                                *)
(***************************************************************************)
\* a variant that also takes what a raising adapter had collected
ExtendWithPartial(all, a) == all \o a.businesses

\* "results = source_methods[source](); all_businesses.extend(results)":
\* only a call that returns has a result to extend the list with
ExtendWith(all, a) == IF a.phase = "return" THEN all \o a.businesses ELSE all

\* a variant without the try block around the call of the adapter
AfterSourceNoTry(all, a) ==
    [all |-> ExtendWith(all, a), raised |-> a.phase = "raised"]

\* "try: results = source_methods[source](); all_businesses.extend(results)
\*  except Exception: pass": the list after the source, and whether the
\* exception of the adapter leaves search
AfterSource(all, a) == [all |-> ExtendWith(all, a), raised |-> FALSE]

\* a variant that takes every id for a key of source_methods
InSourceMethodsAny(source) == TRUE

\* "if source in source_methods"
InSourceMethods(source) == source \in SourceIds

\* "for source in sources: if source in source_methods:" calls the adapter
search_call_source ==
    /\ pc = "search"
    /\ srcIdx <= Len(sources)
    /\ IF InSourceMethods(sources[srcIdx])
       THEN /\ ad' = StartAdapter(sources[srcIdx])
            /\ pc' = "adapter"
            /\ UNCHANGED <<srcIdx, runs>>
       ELSE /\ srcIdx' = srcIdx + 1
            /\ runs' = Append(runs, [source |-> sources[srcIdx],
                                     outcome |-> "skipped", records |-> <<>>])
            /\ UNCHANGED <<ad, pc>>
    /\ UNCHANGED <<req, response, respBody, escaped, maxPages, sources,
                   all_businesses, results, returned, log, okLeft>>
    /\ UNCHANGED <<address, postcode>>

\* the adapter has returned or raised: extend, or swallow the exception
search_after_source ==
    /\ pc = "adapter"
    /\ ad.phase \in {"return", "raised"}
    /\ LET after == AfterSource(all_businesses, ad)
       IN /\ all_businesses' = after.all
          /\ runs' = Append(runs, [source |-> ad.name,
                                   outcome |-> IF ad.phase = "return"
                                               THEN "returned" ELSE "raised",
                                   records |-> ad.businesses])
          /\ IF after.raised
             THEN /\ pc' = "done"
                  /\ response' = <<500>>
                  /\ respBody' = "error"
                  /\ UNCHANGED srcIdx
             ELSE /\ pc' = "search"
                  /\ srcIdx' = srcIdx + 1
                  /\ UNCHANGED <<response, respBody>>
    /\ ad' = NoAdapter
    /\ log' = <<>>
    /\ UNCHANGED <<req, escaped, maxPages, sources, results, returned, okLeft>>
    /\ UNCHANGED <<address, postcode>>

\* a variant that puts each kept record in front of the ones kept before
RECURSIVE DedupLoopPrepend(_, _, _)
DedupLoopPrepend(all, seen_names, unique_businesses) ==
    IF all = <<>> THEN unique_businesses
    ELSE LET biz == Head(all)
             name_lower == strip(lower(biz.name))
         IN IF name_lower # <<>> /\ name_lower \notin seen_names
            THEN DedupLoopPrepend(Tail(all), seen_names \cup {name_lower},
                                  <<biz>> \o unique_businesses)
            ELSE DedupLoopPrepend(Tail(all), seen_names, unique_businesses)

\* "Deduplicate by name": the loop over all_businesses with seen_names
RECURSIVE DedupLoop(_, _, _)
DedupLoop(all, seen_names, unique_businesses) ==
    IF all = <<>> THEN unique_businesses
    ELSE LET biz == Head(all)
             name_lower == strip(lower(biz.name))
         IN IF name_lower # <<>> /\ name_lower \notin seen_names
            THEN DedupLoop(Tail(all), seen_names \cup {name_lower},
                           Append(unique_businesses, biz))
            ELSE DedupLoop(Tail(all), seen_names, unique_businesses)

\* a variant that compares the names as they are, without lower()
RECURSIVE DedupLoopCaseSensitive(_, _, _)
DedupLoopCaseSensitive(all, seen_names, unique_businesses) ==
    IF all = <<>> THEN unique_businesses
    ELSE LET biz == Head(all)
             name == strip(biz.name)
         IN IF name # <<>> /\ name \notin seen_names
            THEN DedupLoopCaseSensitive(Tail(all), seen_names \cup {name},
                                        Append(unique_businesses, biz))
            ELSE DedupLoopCaseSensitive(Tail(all), seen_names, unique_businesses)

DeduplicateCaseSensitive(all) == DedupLoopCaseSensitive(all, {}, <<>>)

Deduplicate(all) == DedupLoop(all, {}, <<>>)

\* a variant that keeps the list as it was before the deduplication
RetainedAll(all, unique_businesses) == all

\* "self.results = unique_businesses"
Retained(all, unique_businesses) == unique_businesses

\* the sources are exhausted: deduplicate, keep self.results, return the
\* list to "businesses" of do_POST
search_return ==
    /\ pc = "search"
    /\ srcIdx > Len(sources)
    /\ results' = Retained(all_businesses, Deduplicate(all_businesses))
    /\ returned' = Deduplicate(all_businesses)
    /\ pc' = "respond"
    /\ UNCHANGED <<req, response, respBody, escaped, maxPages, sources, srcIdx,
                   all_businesses, ad, log, runs, okLeft>>
    /\ UNCHANGED <<address, postcode>>

(***************************************************************************)
(* handler.do_POST after search: the 200 response, and the except handler  *)
(***************************************************************************)
send_result ==
    /\ pc = "respond"
    /\ \E w \in WriteOutcomes :
         LET a == Answer(200, "result", TRUE, w)
         IN /\ response' = a.response
            /\ respBody' = a.respBody
            /\ escaped' = a.escaped
    /\ pc' = "done"
    /\ UNCHANGED <<req, maxPages, sources, srcIdx, all_businesses, results, returned,
                   ad, log, runs, okLeft>>
    /\ UNCHANGED <<address, postcode>>

\* handler.do_OPTIONS: the 200 status and the CORS headers, no body and no
\* try block: an exception raised by end_headers leaves the method
do_OPTIONS ==
    /\ pc = "idle"
    /\ req' = OptionsRequest
    /\ \E sent \in BOOLEAN :
         /\ response' = <<200>>
         /\ respBody' = "none"
         /\ escaped' = ~sent
    /\ pc' = "done"
    /\ maxPages' = 0
    /\ sources' = <<>>
    /\ srcIdx' = 1
    /\ all_businesses' = <<>>
    /\ returned' = <<>>
    /\ ad' = NoAdapter
    /\ log' = <<>>
    /\ runs' = <<>>
    /\ okLeft' = MaxServed
    /\ UNCHANGED <<results, address, postcode>>

\* the request method has ended: the handler and its locals are dropped, and the
\* server waits for the next request; results stays what the scraper of
\* this request retained until the next request builds its own scraper
finish_request ==
    /\ pc = "done"
    /\ pc' = "idle"
    /\ req' = NoFields("ok", "badjson")
    /\ response' = <<>>
    /\ respBody' = "none"
    /\ escaped' = FALSE
    /\ maxPages' = 0
    /\ sources' = <<>>
    /\ srcIdx' = 1
    /\ all_businesses' = <<>>
    /\ returned' = <<>>
    /\ ad' = NoAdapter
    /\ log' = <<>>
    /\ runs' = <<>>
    /\ okLeft' = MaxServed
    /\ UNCHANGED results
    /\ UNCHANGED <<address, postcode>>

(***************************************************************************)
(* The specification                                                       *)
(***************************************************************************)
Init ==
    /\ pc = "idle"
    /\ req = NoFields("ok", "badjson")
    /\ response = <<>>
    /\ respBody = "none"
    /\ escaped = FALSE
    /\ maxPages = 0
    /\ sources = <<>>
    /\ srcIdx = 1
    /\ all_businesses = <<>>
    /\ results = <<>>
    /\ returned = <<>>
    /\ ad = NoAdapter
    /\ log = <<>>
    /\ runs = <<>>
    /\ okLeft = MaxServed
    /\ address = <<>>
    /\ postcode = <<>>

Next ==
    \/ do_POST
    \/ do_OPTIONS
    \/ search_call_source
    \/ scrape_yell
    \/ scrape_freeindex
    \/ scrape_thomson_local
    \/ scrape_yelp_uk
    \/ scrape_google_maps
    \/ _delay
    \/ search_after_source
    \/ search_return
    \/ send_result
    \/ finish_request

Spec == Init /\ [][Next]_vars

\* a step of search or of the adapter it has called
SearchStep ==
    \/ search_call_source
    \/ scrape_yell
    \/ scrape_freeindex
    \/ scrape_thomson_local
    \/ scrape_yelp_uk
    \/ scrape_google_maps
    \/ _delay
    \/ search_after_source
    \/ search_return

\* do_POST has called search for a request that passed the boundary; the
\* web serves up to MaxServedFair listing containers to this call
SearchInit ==
    /\ pc = "search"
    /\ \E r \in Requests :
         /\ Boundary(r).out = "search"
         /\ req = r
         /\ maxPages = Boundary(r).max_pages
         /\ sources = Boundary(r).sources
    /\ response = <<>>
    /\ respBody = "none"
    /\ escaped = FALSE
    /\ srcIdx = 1
    /\ all_businesses = <<>>
    /\ results = NewScraperResults
    /\ returned = <<>>
    /\ ad = NoAdapter
    /\ log = <<>>
    /\ runs = <<>>
    /\ okLeft = MaxServedFair
    /\ address = <<>>
    /\ postcode = <<>>

\* search runs on one thread without waiting for anything but the web and
\* the clock: when every GET comes back (with a page or an exception) and
\* every sleep ends, the step search is at is taken
FairSpec == SearchInit /\ [][SearchStep]_vars /\ WF_vars(SearchStep)

(***************************************************************************)
(* UKBusinessScraper._extract_uk_postcode, and the adapters' calls of it   *)
(***************************************************************************)
\* the characters of an address: letters in both cases, a digit, a blank,
\* and a character the pattern has no place for
AddressChars == {"A", "a", "1", " ", ","}

\* [A-Z] under re.IGNORECASE
IsLetter(c) == c \in {"A", "B", "a", "b"}

\* \d
IsDigit(c) == c = "1"

UpperChar(c) == CASE c = "a" -> "A"
                  [] c = "b" -> "B"
                  [] OTHER -> c

\* a variant that leaves the match as it stands in the text
upperNone(text) == text

\* str.upper()
upper(text) == [i \in 1..Len(text) |-> UpperChar(text[i])]

\* the character at position i, or none past the end of the text
CharAt(text, i) == IF i \in DOMAIN text THEN text[i] ELSE ""

\* the length of the run of whitespace that starts at position i
RECURSIVE SpaceRun(_, _)
SpaceRun(text, i) ==
    IF i \in DOMAIN text /\ IsSpace(text[i]) THEN 1 + SpaceRun(text, i + 1) ELSE 0

\* "\d[A-Z]{2}" at position i: the position of the last character, or 0
TailEnd(text, i) ==
    IF /\ IsDigit(CharAt(text, i))
       /\ IsLetter(CharAt(text, i + 1))
       /\ IsLetter(CharAt(text, i + 2))
    THEN i + 2 ELSE 0

\* "\s*\d[A-Z]{2}" at position i: the greedy \s* takes k blanks, and gives
\* them back one by one while the rest does not match
RECURSIVE TrySpaces(_, _, _)
TrySpaces(text, i, k) ==
    IF k < 0 THEN 0
    ELSE IF TailEnd(text, i + k) # 0 THEN TailEnd(text, i + k)
    ELSE TrySpaces(text, i, k - 1)

\* the pattern at position i with nl letters and with or without the
\* optional character
TryHead(text, i, nl, opt) ==
    IF /\ \A k \in 0..(nl - 1) : IsLetter(CharAt(text, i + k))
       /\ IsDigit(CharAt(text, i + nl))
       /\ opt = 1 => (IsLetter(CharAt(text, i + nl + 1))
                        \/ IsDigit(CharAt(text, i + nl + 1)))
    THEN TrySpaces(text, i + nl + 1 + opt, SpaceRun(text, i + nl + 1 + opt))
    ELSE 0

\* r'[A-Z]{1,2}\d[A-Z\d]?\s*\d[A-Z]{2}' at position i, the greedy choices
\* first: the position of the last character of the match, or 0
MatchAt(text, i) ==
    CASE TryHead(text, i, 2, 1) # 0 -> TryHead(text, i, 2, 1)
      [] TryHead(text, i, 2, 0) # 0 -> TryHead(text, i, 2, 0)
      [] TryHead(text, i, 1, 1) # 0 -> TryHead(text, i, 1, 1)
      [] OTHER -> TryHead(text, i, 1, 0)

\* re.search: the match at the first position that has one
RECURSIVE re_search(_, _)
re_search(text, i) ==
    IF i > Len(text) THEN [start |-> 0, end |-> 0]
    ELSE IF MatchAt(text, i) # 0 THEN [start |-> i, end |-> MatchAt(text, i)]
    ELSE re_search(text, i + 1)

\* "return match.group().upper() if match else ''"
_extract_uk_postcode(text) ==
    LET match == re_search(text, 1)
    IN IF match.end # 0 THEN upper(SubSeq(text, match.start, match.end))
       ELSE <<>>

\* address_elem.get_text(): the text of the address element grows by one
\* character
address_text ==
    /\ pc = "address"
    /\ Len(address) < MaxAddress
    /\ \E c \in AddressChars : address' = Append(address, c)
    /\ UNCHANGED <<pc, req, response, respBody, escaped, maxPages, sources,
                   srcIdx, all_businesses, results, returned, ad, log, runs,
                   okLeft, postcode>>

\* scrape_yell: the postcode is taken from the cleaned address
yell_postcode ==
    /\ pc = "address"
    /\ postcode' = _extract_uk_postcode(_clean_text(address))
    /\ pc' = "postcode_of_cleaned"
    /\ UNCHANGED <<req, response, respBody, escaped, maxPages, sources,
                   srcIdx, all_businesses, results, returned, ad, log, runs,
                   okLeft, address>>

\* scrape_freeindex, scrape_thomson_local, scrape_google_maps: the postcode
\* is taken from the text of the element as it is
raw_postcode ==
    /\ pc = "address"
    /\ postcode' = _extract_uk_postcode(address)
    /\ pc' = "postcode_of_raw"
    /\ UNCHANGED <<req, response, respBody, escaped, maxPages, sources,
                   srcIdx, all_businesses, results, returned, ad, log, runs,
                   okLeft, address>>

\* an adapter has found the address element of a listing
PostcodeInit ==
    /\ pc = "address"
    /\ req = NoFields("ok", "badjson")
    /\ response = <<>>
    /\ respBody = "none"
    /\ escaped = FALSE
    /\ maxPages = 0
    /\ sources = <<>>
    /\ srcIdx = 1
    /\ all_businesses = <<>>
    /\ results = <<>>
    /\ returned = <<>>
    /\ ad = NoAdapter
    /\ log = <<>>
    /\ runs = <<>>
    /\ okLeft = MaxServed
    /\ address = <<>>
    /\ postcode = <<>>

PostcodeNext ==
    \/ address_text
    \/ yell_postcode
    \/ raw_postcode

PostcodeSpec == PostcodeInit /\ [][PostcodeNext]_vars

(***************************************************************************)
(* Notions the properties are stated in                                    *)
(***************************************************************************)
\* a name "after lowercasing and trimming"
NormalizedName(business) == strip(lower(business.name))

\* the adapters that paginate
Paginated == {"yell", "freeindex", "thomson", "yelp"}

\* the results of the adapters that returned, concatenated in the order of
\* the calls
RECURSIVE Concatenation(_)
Concatenation(rs) ==
    IF rs = <<>> THEN <<>>
    ELSE (IF Head(rs).outcome = "returned" THEN Head(rs).records ELSE <<>>)
         \o Concatenation(Tail(rs))

\* search has returned to do_POST
SearchReturned ==
    \/ pc = "respond"
    \/ pc = "done" /\ req.method = "POST" /\ response # <<>> /\ response[1] = 200

\* search was called by do_POST
SearchCalled == pc \in {"search", "adapter"} \/ SearchReturned

\* the calls of the adapters follow the caller's list of sources
RunsFollowSources ==
    /\ Len(runs) = Len(sources)
    /\ \A i \in DOMAIN runs :
         /\ runs[i].source = sources[i]
         /\ (runs[i].outcome = "skipped") = (sources[i] \notin SourceIds)

\* this step appends a GET to the log of the adapter call
FetchStep == /\ Len(log') = Len(log) + 1
             /\ log'[Len(log')].op = "fetch"

(***************************************************************************)
(* C1: the list search returns holds no two records with the same          *)
(* normalized name (lowercased, trimmed), and the record kept for a name   *)
(* is the first one with that name in the concatenation of the adapters'   *)
(* results taken in the caller's source order.                             *)
(***************************************************************************)
C1_DedupKeepsFirst ==
    SearchReturned =>
      LET cat == Concatenation(runs)
      IN /\ RunsFollowSources
         /\ \A i, j \in DOMAIN results :
              i # j => NormalizedName(results[i]) # NormalizedName(results[j])
         /\ \A i \in DOMAIN results :
              \E k \in DOMAIN cat :
                 /\ cat[k] = results[i]
                 /\ \A m \in 1..(k - 1) :
                      NormalizedName(cat[m]) # NormalizedName(cat[k])
         /\ \A k \in DOMAIN cat :
              NormalizedName(cat[k]) # <<>> =>
                 \E i \in DOMAIN results :
                    NormalizedName(results[i]) = NormalizedName(cat[k])

\* two sources returned records whose names differ only in case, and the
\* record of the source that ran first is the one returned
C1_Witness ==
    /\ pc = "respond"
    /\ Len(runs) = 2
    /\ runs[1].source # runs[2].source
    /\ \E i \in DOMAIN runs[1].records, j \in DOMAIN runs[2].records :
         /\ runs[1].records[i].name # runs[2].records[j].name
         /\ NormalizedName(runs[1].records[i]) = NormalizedName(runs[2].records[j])
         /\ \E k \in DOMAIN results : results[k] = runs[1].records[i]
         /\ \A k \in DOMAIN results : results[k].source # runs[2].records[j].source

(***************************************************************************)
(* C2: when a selected adapter raises, search does not raise, every other  *)
(* selected source is still called, and the output is exactly the          *)
(* deduplicated records of the adapters that returned, wherever the        *)
(* failing source stands in the list.                                      *)
(***************************************************************************)
\* the first occurrences of the non-empty normalized names, in order
RECURSIVE FirstOccurrences(_, _)
FirstOccurrences(cat, k) ==
    IF k > Len(cat) THEN <<>>
    ELSE (IF /\ NormalizedName(cat[k]) # <<>>
             /\ \A m \in 1..(k - 1) : NormalizedName(cat[m]) # NormalizedName(cat[k])
          THEN <<cat[k]>> ELSE <<>>)
         \o FirstOccurrences(cat, k + 1)

SomeRunRaised == \E i \in DOMAIN runs : runs[i].outcome = "raised"

C2_RaisingSourceIsContained ==
    SomeRunRaised =>
      /\ pc \in {"search", "adapter", "respond", "done"}
      /\ pc = "done" => (response # <<>> /\ response[1] = 200)
      /\ pc \in {"respond", "done"} =>
           /\ RunsFollowSources
           /\ results = FirstOccurrences(Concatenation(runs), 1)

\* the first source raised, the second one returned two uniquely-named
\* records, and these two are the output
C2_Witness ==
    /\ pc = "respond"
    /\ Len(runs) = 2
    /\ runs[1].outcome = "raised"
    /\ runs[2].outcome = "returned"
    /\ Len(runs[2].records) = 2
    /\ results = runs[2].records

(***************************************************************************)
(* C3: no record with an empty name is in the result list of any adapter   *)
(* nor in the list search returns, whatever else the record holds.         *)
(***************************************************************************)
C3_NoEmptyName ==
    /\ \A i \in DOMAIN ad.businesses : ad.businesses[i].name # <<>>
    /\ \A r \in DOMAIN runs : \A i \in DOMAIN runs[r].records :
          runs[r].records[i].name # <<>>
    /\ \A i \in DOMAIN all_businesses : all_businesses[i].name # <<>>
    /\ \A i \in DOMAIN results : results[i].name # <<>>

\* a page held a listing with a blank name and other fields present, and a
\* named listing: only the named one is in the list of the adapter
C3_Witness ==
    /\ pc = "adapter"
    /\ ad.phase = "delay"
    /\ Len(ad.listings) = 2
    /\ \E i \in DOMAIN ad.listings :
         /\ ad.listings[i].name = <<" ">>
         /\ ad.listings[i].present # {}
    /\ Len(ad.businesses) = 1

(***************************************************************************)
(* C4: the max_pages search is called with is at most 5: a request with    *)
(* max_pages above 5 is handled as one with max_pages 5, a request without *)
(* max_pages as one with max_pages 2, and no adapter asks for a page       *)
(* beyond the fifth.                                                       *)
(***************************************************************************)
C4_MaxPagesCapped ==
    SearchCalled =>
      /\ maxPages <= 5
      /\ (req.max_pages.t = "num" /\ req.max_pages.n > 5) => maxPages = 5
      /\ (req.max_pages.t = "num" /\ req.max_pages.n <= 5) => maxPages = req.max_pages.n
      /\ req.max_pages.t = "absent" => maxPages = 2
      /\ \A i \in DOMAIN log :
           log[i].op = "fetch" =>
              log[i].arg <= (IF ad.name = "yelp" THEN 40 ELSE 5)

\* a request with max_pages 6 for which an adapter fetched its fifth page
C4_Witness ==
    /\ req.max_pages = JNum(6)
    /\ pc = "adapter"
    /\ ad.name = "yelp"
    /\ \E i \in DOMAIN log : log[i].op = "fetch" /\ log[i].arg = 40

(***************************************************************************)
(* C5: a request whose JSON body lacks query or location (missing or       *)
(* empty) is answered with status 400 and a JSON error body, whatever its  *)
(* other fields are, and neither search nor a fetch happens.               *)
(***************************************************************************)
LacksQueryOrLocation ==
    /\ req.method = "POST"
    /\ req.cl = "ok"
    /\ req.body = "object"
    /\ \/ req.query.t = "absent" \/ req.query = JStr(<<>>)
       \/ req.location.t = "absent" \/ req.location = JStr(<<>>)

\* the status the handler writes first is 400, with a JSON error body
\* unless a write to the client fails
C5_MissingInputIs400 ==
    (pc = "done" /\ LacksQueryOrLocation) =>
       /\ response # <<>>
       /\ response[1] = 400
       /\ response = <<400>> => respBody = "error"
       /\ runs = <<>>
       /\ log = <<>>

(***************************************************************************)
(* C6: an exception raised at any step of handling a POST request leads    *)
(* to a 500 response with a JSON error body; no exception escapes do_POST. *)
(***************************************************************************)
C6_NoExceptionEscapes ==
    (pc = "done" /\ req.method = "POST") =>
        (~escaped /\ response # <<>> /\ respBody # "none")

(***************************************************************************)
(* C7: when the fetch of page k fails with a transport error in a          *)
(* paginated adapter, the adapter fetches nothing more in that call and    *)
(* returns exactly the records collected from the pages before k.          *)
(***************************************************************************)
TransportErrorStops ==
    (ad.name \in Paginated /\ ad.fetched = "transport") => ad.phase = "return"

TransportErrorStep ==
    /\ (FetchStep /\ ad'.fetched = "transport" /\ ad.name \in Paginated) =>
          ad'.businesses = ad.businesses
    /\ (ad.name \in Paginated /\ ad.fetched = "transport") =>
          /\ ~FetchStep
          /\ all_businesses' = all_businesses \o ad.businesses
          /\ runs' = Append(runs, [source |-> ad.name, outcome |-> "returned",
                                   records |-> ad.businesses])

C7_TransportErrorEndsPagination ==
    []TransportErrorStops /\ [][TransportErrorStep]_vars

\* page 2 or later failed after a page had given records
C7_Witness ==
    /\ pc = "adapter"
    /\ ad.name \in Paginated
    /\ ad.fetched = "transport"
    /\ ad.phase = "return"
    /\ Len(log) >= 3
    /\ ad.businesses # <<>>

(***************************************************************************)
(* C8: when a fetched page of a paginated adapter yields no listing        *)
(* container, the adapter issues no fetch for a later page in that call.   *)
(***************************************************************************)
C8_NoFetchAfterEmptyPage ==
    [][(ad.name \in Paginated /\ ad.fetched = "empty") => ~FetchStep]_vars

(***************************************************************************)
(* C9: within one adapter call a politeness delay lies between any two     *)
(* successive fetches: every fetch that is followed by anything is         *)
(* followed by a delay.                                                    *)
(***************************************************************************)
C9_DelayBetweenFetches ==
    \A i \in 1..(Len(log) - 1) :
       log[i].op = "fetch" => log[i + 1].op = "delay"

\* an adapter call with a second fetch
C9_Witness ==
    /\ pc = "adapter"
    /\ Len(log) >= 3
    /\ log[1].op = "fetch"
    /\ log[2].op = "delay"
    /\ log[3].op = "fetch"

(***************************************************************************)
(* C10: a failure while extracting one field of a listing (a missing       *)
(* element or an exception) does not abort the listing: the field stays    *)
(* at its default, the remaining fields are extracted, and the record is   *)
(* appended when its name is non-empty.                                    *)
(***************************************************************************)
\* the record the statement describes for one listing
ClaimedRecord(src, listing) ==
    [name |-> IF listing.name = NoElem \/ listing.raises = "name" THEN <<>>
              ELSE _clean_text(listing.name),
     source |-> SourceTag(src),
     fields |-> {f \in listing.present :
                   /\ \E i \in DOMAIN AdapterFields(src) : AdapterFields(src)[i] = f
                   /\ listing.raises # f}]

RECURSIVE ClaimedRecords(_, _)
ClaimedRecords(src, listings) ==
    IF listings = <<>> THEN <<>>
    ELSE (IF ClaimedRecord(src, Head(listings)).name # <<>>
          THEN <<ClaimedRecord(src, Head(listings))>> ELSE <<>>)
         \o ClaimedRecords(src, Tail(listings))

C10_FieldFailureKeepsListing ==
    [][(FetchStep /\ ad'.phase = "delay") =>
          ad'.businesses = ad.businesses \o ClaimedRecords(ad.name, ad'.listings)]_vars

(***************************************************************************)
(* C11: an exception raised while one listing container is processed       *)
(* discards only that listing: the later listings of the page are still    *)
(* processed, the records collected before are kept, and the adapter goes  *)
(* on to the next page.                                                    *)
(***************************************************************************)
\* the extraction of this listing raises in this adapter
ListingRaises(src, listing) ==
    \E i \in DOMAIN AdapterFields(src) : AdapterFields(src)[i] = listing.raises

\* the records of the listings that do not raise and have a name
RECURSIVE RecordsOfSound(_, _)
RecordsOfSound(src, listings) ==
    IF listings = <<>> THEN <<>>
    ELSE (IF /\ ~ListingRaises(src, Head(listings))
             /\ ClaimedRecord(src, Head(listings)).name # <<>>
          THEN <<ClaimedRecord(src, Head(listings))>> ELSE <<>>)
         \o RecordsOfSound(src, Tail(listings))

C11_ListingFailureKeepsPage ==
    [][/\ (FetchStep /\ ad'.fetched = "listings") =>
             /\ ad'.phase = "delay"
             /\ ad'.businesses = ad.businesses \o RecordsOfSound(ad.name, ad'.listings)
       /\ (pc = "adapter" /\ ad.phase = "delay" /\ ad.name \in Paginated) =>
             /\ ad'.phase = "loop"
             /\ ad'.page = ad.page + 1
             /\ ad'.businesses = ad.businesses]_vars

\* the first listing of a page raised and the second one gave the record
C11_Witness ==
    /\ pc = "adapter"
    /\ ad.phase = "delay"
    /\ Len(ad.listings) = 2
    /\ ListingRaises(ad.name, ad.listings[1])
    /\ ad.businesses = <<ClaimedRecord(ad.name, ad.listings[2])>>

(***************************************************************************)
(* C12: the list search returns is a subsequence of the concatenation of   *)
(* the adapters' result lists taken in the caller's source order: two      *)
(* returned records stand in the order of their sources, and within one    *)
(* source in the order the adapter produced them.                          *)
(***************************************************************************)
\* s is obtained from t by leaving elements out
RECURSIVE IsSubsequence(_, _)
IsSubsequence(s, t) ==
    IF s = <<>> THEN TRUE
    ELSE IF t = <<>> THEN FALSE
    ELSE IF Head(s) = Head(t) THEN IsSubsequence(Tail(s), Tail(t))
    ELSE IsSubsequence(s, Tail(t))

C12_ResultsInSourceOrder ==
    SearchReturned =>
        /\ RunsFollowSources
        /\ IsSubsequence(results, Concatenation(runs))

\* two records of two different sources were returned
C12_Witness ==
    /\ pc = "respond"
    /\ Len(results) = 2
    /\ results[1].source # results[2].source
    /\ results = Concatenation(runs)

(***************************************************************************)
(* C13: within one call of a paginated adapter the pages fetched are a     *)
(* prefix of the full range in increasing order: 1..max_pages for yell,    *)
(* freeindex and thomson, the offsets 0, 10, .. for yelp.  No page is      *)
(* fetched twice, none is skipped, and an adapter that has stopped does    *)
(* not fetch again.                                                        *)
(***************************************************************************)
\* the page parameters of the GETs of the log, in the order of the GETs
RECURSIVE FetchArgs(_)
FetchArgs(l) ==
    IF l = <<>> THEN <<>>
    ELSE (IF Head(l).op = "fetch" THEN <<Head(l).arg>> ELSE <<>>)
         \o FetchArgs(Tail(l))

\* the k-th page of the full range of the adapter
NthPage(src, k) == IF src = "yelp" THEN YelpPageSize * (k - 1) ELSE k

PagesArePrefix ==
    (pc = "adapter" /\ ad.name \in Paginated) =>
        LET args == FetchArgs(log)
        IN /\ Len(args) <= Max(maxPages, 0)
           /\ \A k \in DOMAIN args : args[k] = NthPage(ad.name, k)

StoppedStep ==
    (pc = "adapter" /\ ad.phase \in {"return", "raised"}) =>
        /\ ~FetchStep
        /\ pc' # "adapter"

C13_PagesArePrefix == []PagesArePrefix /\ [][StoppedStep]_vars

\* scrape_yelp_uk has fetched the offsets 0, 10, 20, 30, 40 and stopped
C13_Witness ==
    /\ pc = "adapter"
    /\ ad.name = "yelp"
    /\ ad.phase = "return"
    /\ FetchArgs(log) = <<0, 10, 20, 30, 40>>

(***************************************************************************)
(* C14: for every max_pages the boundary passes to search and every        *)
(* selected source, google included, the adapter of the source issues at   *)
(* most max(max_pages, 0) GETs in one call of search.                      *)
(***************************************************************************)
C14_FetchesWithinBudget ==
    pc = "adapter" => Len(FetchArgs(log)) <= Max(maxPages, 0)

(***************************************************************************)
(* C15: a source whose adapter raises contributes nothing: none of the     *)
(* records the adapter had collected in this call, those of the pages      *)
(* already parsed included, is in the output of search.                    *)
(***************************************************************************)
RaisingSourceStep ==
    (pc = "adapter" /\ ad.phase = "raised") => all_businesses' = all_businesses

OnlyReturnedContribute ==
    SearchReturned =>
        /\ all_businesses = Concatenation(runs)
        /\ \A k \in DOMAIN results :
             \E i \in DOMAIN runs :
                /\ runs[i].outcome = "returned"
                /\ \E j \in DOMAIN runs[i].records : runs[i].records[j] = results[k]

C15_RaisingSourceContributesNothing ==
    []OnlyReturnedContribute /\ [][RaisingSourceStep]_vars

\* the adapter had collected a record on an earlier page when it raised,
\* and search returned without it
C15_Witness ==
    /\ pc = "respond"
    /\ \E i \in DOMAIN runs : runs[i].outcome = "raised" /\ runs[i].records # <<>>
    /\ results = <<>>

(***************************************************************************)
(* C16: after a call of search the scraper retains exactly the list the    *)
(* call returned, and nothing carries over between calls: every record of  *)
(* the output was produced by the fetches of this call, and each request   *)
(* starts with a scraper of its own that retains nothing.                  *)
(***************************************************************************)
RetainedIsReturned ==
    SearchReturned =>
        /\ results = returned
        /\ \A k \in DOMAIN returned :
             \E i \in DOMAIN runs :
                \E j \in DOMAIN runs[i].records : runs[i].records[j] = returned[k]

\* a POST request starts with a scraper that retains nothing; an OPTIONS
\* request builds no scraper and has no output
FreshScraperStep ==
    pc = "idle" => /\ req'.method = "POST" => results' = <<>>
                   /\ returned' = <<>>
                   /\ all_businesses' = <<>>
                   /\ runs' = <<>>

C16_NothingCarriesOver == []RetainedIsReturned /\ [][FreshScraperStep]_vars

\* search dropped a duplicate, and the scraper retains the list as returned
C16_Witness ==
    /\ pc = "respond"
    /\ returned # <<>>
    /\ results = returned
    /\ Len(all_businesses) > Len(returned)

(***************************************************************************)
(* C17: the postcode of a record is empty or exactly of the form: one or   *)
(* two uppercase letters, a digit, an optional letter or digit,            *)
(* whitespace, a digit, two uppercase letters; and it is the first such    *)
(* match in the address text.                                              *)
(***************************************************************************)
IsUpperLetter(c) == c \in {"A", "B"}

\* p has the form, with at least minWs whitespace characters in the middle
PostcodeForm(p, minWs) ==
    \E nl \in 1..2, opt \in 0..1, ws \in minWs..Len(p) :
        /\ Len(p) = nl + 1 + opt + ws + 3
        /\ \A k \in 1..nl : IsUpperLetter(p[k])
        /\ IsDigit(p[nl + 1])
        /\ opt = 1 => (IsUpperLetter(p[nl + 2]) \/ IsDigit(p[nl + 2]))
        /\ \A k \in 1..ws : IsSpace(p[nl + 1 + opt + k])
        /\ IsDigit(p[Len(p) - 2])
        /\ IsUpperLetter(p[Len(p) - 1])
        /\ IsUpperLetter(p[Len(p)])

\* the text the adapter took the postcode from
PassedText == IF pc = "postcode_of_cleaned" THEN _clean_text(address) ELSE address

\* the places of the text that read as a postcode of the form when upper
\* and lower case letters are taken alike
FormMatches(text, minWs) ==
    {m \in (1..Len(text)) \X (1..Len(text)) :
        m[1] <= m[2] /\ PostcodeForm(upper(SubSeq(text, m[1], m[2])), minWs)}

\* the postcode is the first match of the form in the text, in upper case,
\* and empty when the text has none
FirstFormMatch(minWs) ==
    LET ms == FormMatches(PassedText, minWs)
    IN IF ms = {} THEN postcode = <<>>
       ELSE \E m \in ms :
               /\ \A o \in ms : m[1] <= o[1]
               /\ postcode = upper(SubSeq(PassedText, m[1], m[2]))

PostcodeExtracted == pc \in {"postcode_of_cleaned", "postcode_of_raw"}

\* the statement with whitespace between the two halves
C17_PostcodeForm ==
    PostcodeExtracted =>
        /\ postcode = <<>> \/ PostcodeForm(postcode, 1)
        /\ FirstFormMatch(1)

\* the statement with any number of whitespace characters, none included,
\* between the two halves
C17_PostcodeFormAmended ==
    PostcodeExtracted =>
        /\ postcode = <<>> \/ PostcodeForm(postcode, 0)
        /\ FirstFormMatch(0)

\* a postcode written in lower case without a blank, after a comma
C17_Witness ==
    /\ pc = "postcode_of_raw"
    /\ address = <<",", "a", "1", "1", "a", "a">>
    /\ postcode = <<"A", "1", "1", "A", "A">>

(***************************************************************************)
(* C18: a source id that is none of the five known ones is skipped: no     *)
(* fetch, no error, and the ids after it are still processed in order.  A  *)
(* request whose source ids are all unknown gets a 200 response with no    *)
(* record.                                                                 *)
(***************************************************************************)
UnknownSourceStep ==
    (/\ pc = "search"
     /\ srcIdx <= Len(sources)
     /\ sources[srcIdx] \notin SourceIds) =>
        /\ pc' = "search"
        /\ srcIdx' = srcIdx + 1
        /\ log' = log
        /\ ad' = NoAdapter
        /\ all_businesses' = all_businesses
        /\ response' = response
        /\ escaped' = escaped

UnknownSourcesGive200 ==
    /\ SearchReturned => RunsFollowSources
    /\ (/\ pc = "done"
        /\ req.method = "POST"
        /\ Boundary(req).out = "search"
        /\ \A i \in DOMAIN sources : sources[i] \notin SourceIds) =>
           /\ response # <<>>
           /\ response[1] = 200
           /\ returned = <<>>

C18_UnknownSourceSkipped == []UnknownSourcesGive200 /\ [][UnknownSourceStep]_vars

\* the unknown id came first, and the known id after it gave a record
C18_Witness ==
    /\ pc = "done"
    /\ response = <<200>>
    /\ Len(sources) = 2
    /\ sources[1] \notin SourceIds
    /\ runs[1].outcome = "skipped"
    /\ runs[2].outcome = "returned"
    /\ returned # <<>>

(***************************************************************************)
(* C19: when every fetch comes back and every delay ends, search returns,  *)
(* for every list of sources and every max_pages, after at most one pass   *)
(* over the sources and at most max_pages page iterations of each          *)
(* paginated adapter.                                                      *)
(***************************************************************************)
SearchRunning == pc \in {"search", "adapter"}

OnePassBoundedPages ==
    SearchRunning =>
        /\ srcIdx \in 1..(Len(sources) + 1)
        /\ Len(runs) = srcIdx - 1
        /\ pc = "adapter" =>
             /\ srcIdx <= Len(sources)
             /\ ad.name = sources[srcIdx]
             /\ ad.name \in Paginated =>
                  /\ Len(FetchArgs(log)) <= Max(maxPages, 0)
                  /\ ad.page <= IF ad.name = "yelp" THEN Max(maxPages, 0)
                                 ELSE Max(maxPages, 0) + 1

C19_SearchReturns ==
    /\ []OnePassBoundedPages
    /\ SearchRunning ~> (pc = "respond")

\* search has returned after the five page iterations of scrape_yelp_uk
C19_Witness ==
    /\ pc = "respond"
    /\ sources = <<"yelp">>
    /\ maxPages = PageCap
    /\ runs[1].outcome = "returned"

(***************************************************************************)
(* C20: every POST request whose body the handler has read gets exactly    *)
(* one response status, one of 200, 400 and 500: once the 200 status and   *)
(* the headers are sent, no second status line is written for the request, *)
(* even when a later step fails.                                           *)
(***************************************************************************)
C20_OneStatusPerRequest ==
    (pc = "done" /\ req.method = "POST" /\ req.cl = "ok") =>
        /\ Len(response) = 1
        /\ response[1] \in {200, 400, 500}

====
